---- MODULE Spec2Model ----
(***************************************************************************)
(* A model of python/openvino_tokenizers/hf_parser.py:                     *)
(*   - TransformersTokenizerPipelineParser: the config-to-pipeline         *)
(*     compiler (parse and its five stages),                               *)
(*   - modify_sentencepiece_model: the vocabulary mutator,                 *)
(*   - add_prefix_tokens and its caller in                                 *)
(*     convert_sentencepiece_model_tokenizer: batched prefix insertion.    *)
(* Each component has its own specification (SpecCompile, SpecMutate,      *)
(* SpecPrefix); the variables of the other components stay idle.           *)
(***************************************************************************)
EXTENDS Integers, Sequences, FiniteSets, TLC

VARIABLES
    parser,      \* the TransformersTokenizerPipelineParser object (its fields)
    calls,       \* the parse calls made on it, oldest first: the arguments,
                 \* what was raised, and the returned pipeline as it was then
    sp,          \* the mutator: the model file, the call's arguments, the runs
    px           \* prefix insertion: the call's arguments and its result

vars == <<parser, calls, sp, px>>

(***************************** bounds **************************************)
\* pieces of a vocabulary model file
MaxPieces == 3
\* largest id a requested insertion names
MaxId == 4
\* longest "Sequence" list of a stage sub-document
MaxSeqLen == 2
\* parse calls made on one parser object
MaxParses == 2
\* largest number of special tokens a combine-segments rule injects
MaxAdded == 2
\* the tokenizer's model_max_length, when it declares one
MaxLength == 8
\* max_length of the truncation sub-document, when present
TruncLength == 6

(*************************** small helpers *********************************)
\* Python's None for an integer-valued attribute or argument
None == 0 - 1

\* JSON null for a sub-document
NULL == [type |-> "null"]

RECURSIVE SeqsUpTo(_, _)
\* all sequences over S of length 0..n
SeqsUpTo(S, n) ==
    IF n = 0 THEN {<<>>}
    ELSE LET shorter == SeqsUpTo(S, n - 1)
         IN  shorter \cup {Append(s, x) : s \in {t \in shorter : Len(t) = n - 1}, x \in S}

\* a pipeline step: its class and its distinguishing argument; tokens is the
\* vocabulary of a tokenization step or the skip_tokens of a VocabDecoderStep;
\* a TruncationStep keeps the max_length it was built with and the
\* num_of_added_tokens the parser passed to its constructor; a
\* CombineSegmentsStep keeps its number_of_added_tokens and number_of_inputs;
\* option is pad_to_max_length of a PaddingStep
Step(class, arg) ==
    [step |-> class, arg |-> arg, tokens |-> <<>>, max_length |-> None,
     num_of_added_tokens |-> 0, number_of_added_tokens |-> 0,
     number_of_inputs |-> 0, option |-> FALSE]

(***************************************************************************)
(* TokenizerPipeline.add_steps: a list extends the step list, a single     *)
(* step is appended.  Steps are always handed over as a sequence here.     *)
(***************************************************************************)
add_steps(pipeline, steps) ==
    [pipeline EXCEPT !.steps = @ \o steps]

(************************ normalization ************************************)
parse_replace_normalizer(normalizer_dict) ==
    IF normalizer_dict.filtered_pattern = ""
    THEN <<>>
    ELSE <<Step("RegexNormalizationStep", "replace")>>

parse_bert_normalizer(normalizer_dict) ==
    (IF normalizer_dict.strip_accents \/ normalizer_dict.lowercase
     THEN <<Step("NormalizeUnicode", "NFD"), Step("RegexNormalizationStep", "strip_accents")>>
     ELSE <<>>)
    \o (IF normalizer_dict.lowercase THEN <<Step("CaseFoldStep", "")>> ELSE <<>>)

parse_strip_step(split_dict) == <<Step("StripStringStep", "")>>

NormalizerTypes ==
    {"NFC", "NFD", "NFKC", "NFKD", "Nmt", "Lowercase", "StripAccents",
     "BertNormalizer", "Replace", "Strip", "Prepend"}

normalizers_map(step_dict) ==
    CASE step_dict.type \in {"NFC", "NFD", "NFKC", "NFKD"} ->
            <<Step("NormalizeUnicode", step_dict.type)>>
      [] step_dict.type = "Nmt" -> <<Step("NMTNormalizationStep", "")>>
      [] step_dict.type = "Lowercase" -> <<Step("CaseFoldStep", "")>>
      [] step_dict.type = "StripAccents" -> <<Step("RegexNormalizationStep", "strip_accents")>>
      [] step_dict.type = "BertNormalizer" -> parse_bert_normalizer(step_dict)
      [] step_dict.type = "Replace" -> parse_replace_normalizer(step_dict)
      [] step_dict.type = "Strip" -> parse_strip_step(step_dict)
      [] step_dict.type = "Prepend" -> <<Step("RegexNormalizationStep", "prepend")>>

\* mutant: a rule whose type the table lacks is passed over, as the decoding
\* stage does
parse_normalizer_step_skips(self, step_dict) ==
    IF step_dict.type \in NormalizerTypes
    THEN [self EXCEPT !.pipeline = add_steps(@, normalizers_map(step_dict))]
    ELSE self

\* the KeyError of the table lookup becomes an OVTypeError; nothing is added
parse_normalizer_step(self, step_dict) ==
    IF step_dict.type \in NormalizerTypes
    THEN [self EXCEPT !.pipeline = add_steps(@, normalizers_map(step_dict))]
    ELSE [self EXCEPT !.raised = "OVTypeError: Normalizer type is not supported"]

RECURSIVE parse_normalizer_steps(_, _)
\* the for loop over a Sequence's members: the first raise ends it
parse_normalizer_steps(self, normalizers) ==
    IF normalizers = <<>> \/ self.raised # "" THEN self
    ELSE parse_normalizer_steps(parse_normalizer_step(self, Head(normalizers)),
                                Tail(normalizers))

normalization(self) ==
    LET doc == self.tokenizer_json.normalizer
    IN  IF doc.type = "null" THEN self
        ELSE IF doc.type = "Sequence"
             THEN parse_normalizer_steps(self, doc.normalizers)
             ELSE parse_normalizer_step(self, doc)

(************************ pre-tokenization *********************************)
parse_byte_level_pretokenization_step(pretokenizer_dict) ==
    (IF pretokenizer_dict.add_prefix_space
     THEN <<Step("RegexNormalizationStep", "add_prefix_whitespace")>> ELSE <<>>)
    \o (IF pretokenizer_dict.use_regex
        THEN <<Step("RegexSplitStep", "byte_level_splitter")>> ELSE <<>>)
    \o <<Step("BytesToCharsStep", "")>>

PreTokenizerTypes ==
    {"BertPreTokenizer", "Whitespace", "WhitespaceSplit", "Split", "Punctuation",
     "ByteLevel", "Digits"}

pre_tokenization_map(step_dict) ==
    CASE step_dict.type = "BertPreTokenizer" -> <<Step("RegexSplitStep", "bert_splitter")>>
      [] step_dict.type = "Whitespace" -> <<Step("RegexSplitStep", "whitespace_splitter")>>
      [] step_dict.type = "WhitespaceSplit" -> <<Step("WhitespaceSplitStep", "")>>
      [] step_dict.type = "Split" -> <<Step("RegexSplitStep", "split")>>
      [] step_dict.type = "Punctuation" -> <<Step("RegexSplitStep", "punctuation_splitter")>>
      [] step_dict.type = "ByteLevel" -> parse_byte_level_pretokenization_step(step_dict)
      [] step_dict.type = "Digits" -> <<Step("RegexSplitStep", "digits_splitter")>>

parse_pre_tokenization_step(self, step_dict) ==
    IF step_dict.type \in PreTokenizerTypes
    THEN [self EXCEPT !.pipeline = add_steps(@, pre_tokenization_map(step_dict))]
    ELSE [self EXCEPT !.raised = "OVTypeError: Pre-tokenizer type is not supported"]

RECURSIVE parse_pre_tokenization_steps(_, _)
parse_pre_tokenization_steps(self, pretokenizers) ==
    IF pretokenizers = <<>> \/ self.raised # "" THEN self
    ELSE parse_pre_tokenization_steps(
             parse_pre_tokenization_step(self, Head(pretokenizers)), Tail(pretokenizers))

pre_tokenization(self) ==
    LET doc == self.tokenizer_json.pre_tokenizer
    IN  IF doc.type = "null" THEN self
        ELSE IF doc.type = "Sequence"
             THEN parse_pre_tokenization_steps(self, doc.pretokenizers)
             ELSE parse_pre_tokenization_step(self, doc)

(************************** subword model **********************************)
\* WordPieceTokenizationStep.from_hf_json / BPETokenizationStep.from_hf_json:
\* the step carries the vocabulary of the model sub-document
TokenizationStep_from_hf_json(class, tokenizer_json) ==
    [Step(class, "") EXCEPT !.tokens = tokenizer_json.model.vocab]

tokenization_model(self) ==
    LET type == self.tokenizer_json.model.type
    IN  IF type = "WordPiece"
        THEN [self EXCEPT !.pipeline =
                 [add_steps(@, <<TokenizationStep_from_hf_json("WordPieceTokenizationStep",
                                                               self.tokenizer_json)>>)
                    EXCEPT !.vocab = self.tokenizer_json.model.vocab]]
        ELSE IF type = "BPE"
        THEN [self EXCEPT !.pipeline =
                 [add_steps(@, <<TokenizationStep_from_hf_json("BPETokenizationStep",
                                                               self.tokenizer_json)>>)
                    EXCEPT !.vocab = self.tokenizer_json.model.vocab]]
        ELSE [self EXCEPT !.raised = "OVTypeError: Tokenizer type is not supported"]

(************************** post-processing ********************************)
\* TruncationStep.from_hf_json: the truncation sub-document's max_length less
\* the tokens that post-processing adds
TruncationStep_from_hf_json(tokenizer_json, num_of_added_tokens, max_length) ==
    [Step("TruncationStep", "from_hf_json") EXCEPT
        !.max_length = tokenizer_json.truncation.max_length - num_of_added_tokens,
        !.num_of_added_tokens = num_of_added_tokens]

\* TruncationStep.from_hf_object: the tokenizer's model_max_length less the
\* tokens that post-processing adds
TruncationStep_from_hf_object(tokenizer, num_of_added_tokens) ==
    [Step("TruncationStep", "from_hf_object") EXCEPT
        !.max_length = tokenizer.model_max_length - num_of_added_tokens,
        !.num_of_added_tokens = num_of_added_tokens]

add_truncation(self) ==
    LET max_length == self.original_tokenizer.model_max_length
    IN  IF self.tokenizer_json.truncation.type # "null"
        THEN [self EXCEPT !.pipeline =
                 add_steps(@, <<TruncationStep_from_hf_json(
                                   self.tokenizer_json, self.num_of_added_tokens, max_length)>>)]
        ELSE IF self.original_tokenizer.model_max_length # None
        THEN [self EXCEPT !.pipeline =
                 add_steps(@, <<TruncationStep_from_hf_object(
                                   self.original_tokenizer, self.num_of_added_tokens)>>)]
        ELSE self

add_padding(self, use_max_padding) ==
    LET max_length == self.original_tokenizer.model_max_length
    IN  IF self.tokenizer_json.padding.type # "null"
        THEN [self EXCEPT !.pipeline =
                 add_steps(@, <<[Step("PaddingStep", "from_hf_json") EXCEPT
                                    !.option = use_max_padding,
                                    !.max_length = max_length]>>)]
        ELSE [self EXCEPT !.pipeline =
                 add_steps(@, <<[Step("PaddingStep", self.original_tokenizer.pad_token) EXCEPT
                                    !.option = use_max_padding,
                                    !.max_length = max_length]>>)]

PostProcessorTypes == {"TemplateProcessing", "BertProcessing", "RobertaProcessing"}

\* CombineSegmentsStep.from_hf_json_*: the step knows how many special tokens
\* its template injects; none when special tokens are not to be added
post_tokenization_map(step, number_of_inputs, add_special_tokens) ==
    [Step("CombineSegmentsStep", step.type) EXCEPT
        !.number_of_added_tokens = IF add_special_tokens THEN step.special_tokens ELSE 0,
        !.number_of_inputs = number_of_inputs]

RECURSIVE first_supported(_)
\* next(... for step in processors if step["type"] in post_tokenization_map),
\* as the index of the first such member, 0 when there is none
first_supported(processors) ==
    IF processors = <<>> THEN 0
    ELSE IF Head(processors).type \in PostProcessorTypes THEN 1
    ELSE LET rest == first_supported(Tail(processors))
         IN  IF rest = 0 THEN 0 ELSE rest + 1

\* the part of post_tokenization that follows the resolution of the
\* combine-segments step
add_combine_segments(self, combine_segments_step, use_max_padding) ==
    LET counted == [self EXCEPT !.num_of_added_tokens =
                        @ + combine_segments_step.number_of_added_tokens]
        truncated == add_truncation(counted)
        combined == [truncated EXCEPT !.pipeline = add_steps(@, <<combine_segments_step>>)]
    IN  add_padding(combined, use_max_padding)

post_tokenization(self, add_special_tokens, use_max_padding) ==
    LET post_processor_json == self.tokenizer_json.post_processor
        pt_type == post_processor_json.type
    IN  IF post_processor_json.type = "null" \/ post_processor_json.type = "ByteLevel"
        THEN add_padding(add_truncation(self), use_max_padding)
        ELSE IF pt_type # "Sequence" /\ pt_type \notin PostProcessorTypes
        THEN [self EXCEPT !.raised = "OVTypeError: Post-processor type is not supported"]
        ELSE IF pt_type = "Sequence"
        THEN LET processors == post_processor_json.processors
                 i == first_supported(processors)
             IN  IF i = 0
                 THEN [self EXCEPT !.raised =
                          "OVTypeError: Expected that Sequence post-tokenizer type contains one of supported post-tokenizers type"]
                 ELSE add_combine_segments(
                          self,
                          post_tokenization_map(processors[i], self.number_of_inputs,
                                                add_special_tokens),
                          use_max_padding)
        ELSE add_combine_segments(
                 self,
                 post_tokenization_map(post_processor_json, self.number_of_inputs,
                                       add_special_tokens),
                 use_max_padding)

(****************************** decoding ***********************************)
DecoderTypes == {"Replace", "Fuse", "Strip", "ByteFallback"}

decoding_map(decode_dict) ==
    CASE decode_dict.type = "Replace" -> <<Step("RegexDecodingStep", "replace")>>
      [] decode_dict.type = "Fuse" -> <<Step("FuseStep", "")>>
      [] decode_dict.type = "Strip" -> <<Step("RegexDecodingStep", "strip")>>
      [] decode_dict.type = "ByteFallback" -> <<Step("ByteFallbackStep", "")>>

\* parse_special_tokens(hf_tokenizer): the ids of the special added tokens
parse_special_tokens(hf_tokenizer) == hf_tokenizer.special_tokens

DecodingStepClasses ==
    {"VocabDecoderStep", "RegexDecodingStep", "FuseStep", "ByteFallbackStep",
     "CharsToBytesStep"}

\* TokenizerPipeline.decoding_steps
decoding_steps(pipeline) ==
    SelectSeq(pipeline.steps, LAMBDA s : s.step \in DecodingStepClasses)

RECURSIVE decode_sequence_strict(_, _)
\* the loop over a Sequence decoder with the raise statement in force: a
\* member whose type the table lacks makes the stage raise
decode_sequence_strict(self, decoders) ==
    IF decoders = <<>> \/ self.raised # "" THEN self
    ELSE LET decoder_dict == Head(decoders)
         IN  decode_sequence_strict(
                 IF decoder_dict.type \notin DecoderTypes
                 THEN [self EXCEPT !.raised = "ValueError"]
                 ELSE [self EXCEPT !.pipeline = add_steps(@, decoding_map(decoder_dict))],
                 Tail(decoders))

RECURSIVE decode_sequence(_, _)
\* the loop over a Sequence decoder: a member whose type the table lacks is
\* passed over
decode_sequence(self, decoders) ==
    IF decoders = <<>> THEN self
    ELSE LET decoder_dict == Head(decoders)
         IN  decode_sequence(
                 IF decoder_dict.type \notin DecoderTypes
                 THEN self
                 ELSE [self EXCEPT !.pipeline = add_steps(@, decoding_map(decoder_dict))],
                 Tail(decoders))

\* the decoding stage with the two stripping rules in the other order
decoding_prefix_first(self, skip_special_tokens, clean_up_tokenization_spaces) ==
    LET tj == self.tokenizer_json
    IN  IF tj.decoder.type = "null" \/ tj.model.type = "WordPiece" THEN self
        ELSE
        LET skip_tokens == IF skip_special_tokens
                           THEN parse_special_tokens(self.original_tokenizer) ELSE <<>>
            s1 == [self EXCEPT !.pipeline =
                      add_steps(@, <<[Step("VocabDecoderStep", "") EXCEPT
                                         !.tokens = skip_tokens]>>)]
            s2 == IF tj.decoder.type = "Sequence"
                  THEN decode_sequence(s1, tj.decoder.decoders)
                  ELSE IF tj.decoder.type = "ByteLevel"
                  THEN [s1 EXCEPT !.pipeline = add_steps(@, <<Step("CharsToBytesStep", "")>>)]
                  ELSE [s1 EXCEPT !.pipeline = add_steps(@, <<Step("FuseStep", "")>>)]
            s3 == IF tj.model.continuing_subword_prefix # ""
                  THEN [s2 EXCEPT !.pipeline =
                           add_steps(@, <<Step("RegexDecodingStep",
                                               "replace_continuing_subword_prefix")>>)]
                  ELSE s2
            s4 == IF tj.model.end_of_word_suffix # ""
                  THEN [s3 EXCEPT !.pipeline =
                           add_steps(@, <<Step("RegexDecodingStep", "replace_end_of_word_suffix")>>)]
                  ELSE s3
            clean_up == IF clean_up_tokenization_spaces = "None"
                        THEN self.original_tokenizer.clean_up_tokenization_spaces
                        ELSE clean_up_tokenization_spaces = "True"
        IN  IF clean_up /\ decoding_steps(s4.pipeline) # <<>>
            THEN [s4 EXCEPT !.pipeline =
                     add_steps(@, <<Step("RegexDecodingStep", "clean_up_tokenization_spaces")>>)]
            ELSE s4

decoding(self, skip_special_tokens, clean_up_tokenization_spaces) ==
    LET tj == self.tokenizer_json
    IN  IF tj.decoder.type = "null" \/ tj.model.type = "WordPiece" THEN self
        ELSE
        LET skip_tokens == IF skip_special_tokens
                           THEN parse_special_tokens(self.original_tokenizer) ELSE <<>>
            s1 == [self EXCEPT !.pipeline =
                      add_steps(@, <<[Step("VocabDecoderStep", "") EXCEPT
                                         !.tokens = skip_tokens]>>)]
            s2 == IF tj.decoder.type = "Sequence"
                  THEN decode_sequence(s1, tj.decoder.decoders)
                  ELSE IF tj.decoder.type = "ByteLevel"
                  THEN [s1 EXCEPT !.pipeline = add_steps(@, <<Step("CharsToBytesStep", "")>>)]
                  ELSE [s1 EXCEPT !.pipeline = add_steps(@, <<Step("FuseStep", "")>>)]
            s3 == IF tj.model.end_of_word_suffix # ""
                  THEN [s2 EXCEPT !.pipeline =
                           add_steps(@, <<Step("RegexDecodingStep", "replace_end_of_word_suffix")>>)]
                  ELSE s2
            s4 == IF tj.model.continuing_subword_prefix # ""
                  THEN [s3 EXCEPT !.pipeline =
                           add_steps(@, <<Step("RegexDecodingStep",
                                               "replace_continuing_subword_prefix")>>)]
                  ELSE s3
            clean_up == IF clean_up_tokenization_spaces = "None"
                        THEN self.original_tokenizer.clean_up_tokenization_spaces
                        ELSE clean_up_tokenization_spaces = "True"
        IN  IF clean_up /\ decoding_steps(s4.pipeline) # <<>>
            THEN [s4 EXCEPT !.pipeline =
                     add_steps(@, <<Step("RegexDecodingStep", "clean_up_tokenization_spaces")>>)]
            ELSE s4

(******************************* parse *************************************)
\* TransformersTokenizerPipelineParser.__init__
new_parser(tokenizer_object, tokenizer_json) ==
    [original_tokenizer |-> tokenizer_object,
     tokenizer_json |-> tokenizer_json,
     pipeline |-> [steps |-> <<>>, vocab |-> <<>>, number_of_inputs |-> 1,
                   eos_token_id |-> None],
     number_of_inputs |-> 1,
     num_of_added_tokens |-> 0,
     raised |-> ""]

\* one stage of the for loop of parse; an exception raised by an earlier stage
\* is in flight and the stage does not run
then_stage(self, staged) == IF self.raised # "" THEN self ELSE staged

\* parse: the five stages in order, then the end-of-sequence id.  The result
\* is the parser after the call; raised # "" when the call raised.
parse(self, number_of_inputs, add_special_tokens, skip_special_tokens, clean_up, use_max_padding) ==
    LET n  == IF number_of_inputs = None THEN self.number_of_inputs ELSE number_of_inputs
        s0 == [self EXCEPT !.number_of_inputs = n, !.pipeline.number_of_inputs = n,
                           !.raised = ""]
        s1 == normalization(s0)
        s2 == then_stage(s1, pre_tokenization(s1))
        s3 == then_stage(s2, tokenization_model(s2))
        s4 == then_stage(s3, post_tokenization(s3, add_special_tokens, use_max_padding))
        s5 == then_stage(s4, decoding(s4, skip_special_tokens, clean_up))
    IN  then_stage(s5, [s5 EXCEPT !.pipeline.eos_token_id =
                                      self.original_tokenizer.eos_token_id])

(***************************************************************************)
(* modify_sentencepiece_model.  A piece is [piece, type, score]; the type  *)
(* tags are those of the SentencePiece model format.  model.pieces is a    *)
(* repeated message field: pop hands out the element itself, insert stores *)
(* a copy, == compares by value.  The dict "existing" is built once, from  *)
(* the pieces as read, and keeps referring to those objects: oid is the    *)
(* position a piece had in the file (0 for a piece made later), and        *)
(* st.orig[o] is the present value of the object read at position o,       *)
(* whether it is still in the container or was popped.                     *)
(***************************************************************************)
NORMAL == 1
UNKNOWN == 2
CONTROL == 3
USER_DEFINED == 4

Piece(text, type, score) == [piece |-> text, type |-> type, score |-> score]

Value(p) == Piece(p.piece, p.type, p.score)

Stored(v, oid) == [piece |-> v.piece, type |-> v.type, score |-> v.score, oid |-> oid]

StripOids(pieces) == [i \in DOMAIN pieces |-> Value(pieces[i])]

\* list.insert(idx, x) of Python, idx a 0-based position: past the end appends
InsertAt(seq, idx, x) ==
    IF idx >= Len(seq) THEN Append(seq, x)
    ELSE SubSeq(seq, 1, idx) \o <<x>> \o SubSeq(seq, idx + 1, Len(seq))

\* list.pop(j) of Python, j a 1-based position here
RemoveAt(seq, j) == SubSeq(seq, 1, j - 1) \o SubSeq(seq, j + 1, Len(seq))

\* existing = {piece.piece: piece for piece in model.pieces}: the oid of the
\* last piece of the file with that text, 0 when the dict lacks the key
existing(file_pieces, token) ==
    LET hits == {i \in DOMAIN file_pieces : file_pieces[i].piece = token}
    IN  IF hits = {} THEN 0 ELSE CHOOSE i \in hits : \A k \in hits : k <= i

\* next(idx for idx, piece in enumerate(model.pieces) if piece == exists),
\* 1-based, 0 when the generator is exhausted (StopIteration)
first_equal(pieces, exists) ==
    LET hits == {j \in DOMAIN pieces : Value(pieces[j]) = exists}
    IN  IF hits = {} THEN 0 ELSE CHOOSE j \in hits : \A k \in hits : j <= k

\* the type policy with only the unknown type exempt from suppression
retyped_unless_unknown(type, skip_special_tokens) ==
    IF skip_special_tokens /\ type # UNKNOWN THEN CONTROL
    ELSE IF ~skip_special_tokens /\ type = CONTROL THEN USER_DEFINED
    ELSE type

\* the type a requested piece ends with
retyped(type, skip_special_tokens) ==
    IF skip_special_tokens /\ type \notin {UNKNOWN, USER_DEFINED} THEN CONTROL
    ELSE IF ~skip_special_tokens /\ type = CONTROL THEN USER_DEFINED
    ELSE type

\* hf_tokenizer.decode(id) or "<empty_id>"
placeholder(hf_tokenizer, id) ==
    LET text == IF id \in DOMAIN hf_tokenizer.decode THEN hf_tokenizer.decode[id] ELSE ""
    IN  IF text # "" THEN text ELSE "<empty_" \o ToString(id) \o ">"

RECURSIVE extend_vocab(_, _, _, _)
\* while len(model.pieces) + 1 <= idx: insert a renamed copy of new_piece
extend_vocab(pieces, idx, new_piece, hf_tokenizer) ==
    IF Len(pieces) + 1 <= idx
    THEN extend_vocab(
             InsertAt(pieces, idx,
                      Stored(Piece(placeholder(hf_tokenizer, Len(pieces)), USER_DEFINED,
                                   new_piece.score), 0)),
             idx, new_piece, hf_tokenizer)
    ELSE pieces

\* the body of the for loop for one (idx, token) of add_tokens
add_token(st, file_pieces, idx, token, hf_tokenizer, skip_special_tokens) ==
    LET to_add == idx >= Len(st.pieces) \/ st.pieces[idx + 1].piece # token
        exists == existing(file_pieces, token)
    IN  IF ~to_add
        THEN \* new_piece = model.pieces[idx], retyped in place
             LET old == st.pieces[idx + 1]
                 new == [old EXCEPT !.type = retyped(@, skip_special_tokens)]
             IN  [st EXCEPT !.pieces[idx + 1] = new,
                            !.orig = IF old.oid # 0
                                     THEN [@ EXCEPT ![old.oid] = Value(new)] ELSE @]
        ELSE IF exists # 0
        THEN \* the piece is popped from where it is and inserted at idx
             LET j == first_equal(st.pieces, st.orig[exists])
             IN  IF j = 0 THEN [st EXCEPT !.raised = "StopIteration"]
                 ELSE LET old == st.pieces[j]
                          new == [old EXCEPT !.type = retyped(@, skip_special_tokens)]
                          popped == RemoveAt(st.pieces, j)
                          extended == extend_vocab(popped, idx, new, hf_tokenizer)
                      IN  [st EXCEPT
                              !.pieces = InsertAt(extended, idx, Stored(Value(new), 0)),
                              !.orig = IF old.oid # 0
                                       THEN [@ EXCEPT ![old.oid] = Value(new)] ELSE @]
        ELSE \* a copy of the last piece, renamed
             IF st.pieces = <<>> THEN [st EXCEPT !.raised = "IndexError"]
             ELSE LET last == st.pieces[Len(st.pieces)]
                      new == Stored(Piece(token, retyped(last.type, skip_special_tokens),
                                          last.score), 0)
                      extended == extend_vocab(st.pieces, idx, new, hf_tokenizer)
                  IN  [st EXCEPT !.pieces = InsertAt(extended, idx, new)]

RECURSIVE add_all_tokens(_, _, _, _, _)
\* for idx, token in sorted(add_tokens.items())
add_all_tokens(st, file_pieces, add_tokens, hf_tokenizer, skip_special_tokens) ==
    IF DOMAIN add_tokens = {} \/ st.raised # "" THEN st
    ELSE LET idx == CHOOSE i \in DOMAIN add_tokens : \A k \in DOMAIN add_tokens : i <= k
             rest == [k \in DOMAIN add_tokens \ {idx} |-> add_tokens[k]]
         IN  add_all_tokens(
                 add_token(st, file_pieces, idx, add_tokens[idx], hf_tokenizer,
                           skip_special_tokens),
                 file_pieces, rest, hf_tokenizer, skip_special_tokens)

RECURSIVE pad_vocab(_, _)
\* while len(model.pieces) < hf_tokenizer.vocab_size: append a control copy of
\* the last piece
pad_vocab(pieces, hf_tokenizer) ==
    IF hf_tokenizer.vocab_size # None /\ Len(pieces) < hf_tokenizer.vocab_size
    THEN pad_vocab(
             Append(pieces,
                    Stored(Piece(placeholder(hf_tokenizer, Len(pieces)), CONTROL,
                                 pieces[Len(pieces)].score), 0)),
             hf_tokenizer)
    ELSE pieces

\* next(piece for piece in model.pieces if piece.type == 2), 0 when none
unk_token(pieces) ==
    LET hits == {j \in DOMAIN pieces : pieces[j].type = UNKNOWN}
    IN  IF hits = {} THEN 0 ELSE CHOOSE j \in hits : \A k \in hits : j <= k

NoModel == [status |-> "none", pieces |-> <<>>, unk_surface |-> "", add_dummy_prefix |-> FALSE]

\* modify_sentencepiece_model on the model file: the serialized model it
\* returns, or what it raised
modify_sentencepiece_model(file, add_tokens, hf_tokenizer, skip_special_tokens, add_prefix_space) ==
    LET st0 == [pieces |-> [i \in DOMAIN file.pieces |-> Stored(file.pieces[i], i)],
                orig |-> file.pieces,
                raised |-> ""]
        st1 == add_all_tokens(st0, file.pieces, add_tokens, hf_tokenizer, skip_special_tokens)
    IN  IF st1.raised # "" THEN [NoModel EXCEPT !.status = st1.raised]
        ELSE IF st1.pieces = <<>> /\ hf_tokenizer.vocab_size # None /\ hf_tokenizer.vocab_size > 0
        THEN [NoModel EXCEPT !.status = "IndexError"]
        ELSE LET padded == pad_vocab(st1.pieces, hf_tokenizer)
                 u == unk_token(padded)
             IN  IF u = 0 THEN [NoModel EXCEPT !.status = "StopIteration"]
                 ELSE [status |-> "ok", pieces |-> StripOids(padded),
                       unk_surface |-> padded[u].piece,
                       add_dummy_prefix |-> IF add_prefix_space = "None"
                                            THEN file.add_dummy_prefix
                                            ELSE add_prefix_space = "True"]

(***************************************************************************)
(* The compiler as a state machine: a parser constructed for one           *)
(* configuration document, and parse called on it up to MaxParses times.   *)
(***************************************************************************)
UnknownRule == [type |-> "TotallyUnknownType"]

BertNormalizerRule ==
    [type |-> "BertNormalizer", clean_text |-> TRUE, lowercase |-> TRUE,
     strip_accents |-> FALSE]

NormalizerDocs ==
    {NULL, [type |-> "NFC"], UnknownRule}
    \cup {[type |-> "Sequence", normalizers |-> s] :
             s \in SeqsUpTo({BertNormalizerRule, UnknownRule}, MaxSeqLen)}

ByteLevelRule == [type |-> "ByteLevel", add_prefix_space |-> TRUE, use_regex |-> TRUE]

PreTokenizerDocs ==
    {NULL, ByteLevelRule, UnknownRule,
     [type |-> "Sequence", pretokenizers |-> <<[type |-> "Whitespace"], UnknownRule>>]}

ModelDoc(type, suffix, prefix) ==
    [type |-> type, vocab |-> <<"[UNK]", "a", "b">>,
     end_of_word_suffix |-> suffix, continuing_subword_prefix |-> prefix]

TemplateRule(k) == [type |-> "TemplateProcessing", special_tokens |-> k]

PostProcessorDocs ==
    {NULL, [type |-> "ByteLevel"], UnknownRule,
     [type |-> "RobertaProcessing", special_tokens |-> MaxAdded],
     [type |-> "Sequence", processors |-> <<[type |-> "ByteLevel"], UnknownRule>>],
     [type |-> "Sequence",
      processors |-> <<[type |-> "ByteLevel"], TemplateRule(MaxAdded), TemplateRule(0)>>]}
    \cup {TemplateRule(k) : k \in 1..MaxAdded}

DecoderDocs ==
    {NULL, [type |-> "ByteLevel"], [type |-> "Metaspace"]}
    \cup {[type |-> "Sequence", decoders |-> s] :
             s \in SeqsUpTo({[type |-> "Replace"], [type |-> "CTC"]}, MaxSeqLen)}

TruncationDocs == {NULL, [type |-> "truncation", max_length |-> TruncLength]}

PaddingDocs == {NULL, [type |-> "padding"]}

Tokenizer(model_max_length, clean_up) ==
    [model_max_length |-> model_max_length, pad_token |-> "[PAD]",
     eos_token_id |-> 2, special_tokens |-> <<"[UNK]">>,
     clean_up_tokenization_spaces |-> clean_up]

\* documents that exercise the stages up to post-processing
FrontConfigs ==
    {[normalizer |-> n, pre_tokenizer |-> p, model |-> m, post_processor |-> q,
      decoder |-> [type |-> "ByteLevel"], truncation |-> t, padding |-> NULL] :
        n \in NormalizerDocs, p \in PreTokenizerDocs,
        m \in {ModelDoc("WordPiece", "", "##"), ModelDoc("BPE", "", ""),
                ModelDoc("Unigram", "", "")},
        q \in PostProcessorDocs, t \in TruncationDocs}

\* documents that exercise the subword model and the decoding stage
BackConfigs ==
    {[normalizer |-> [type |-> "NFC"], pre_tokenizer |-> ByteLevelRule, model |-> m,
      post_processor |-> TemplateRule(MaxAdded), decoder |-> d, truncation |-> NULL,
      padding |-> g] :
        m \in {ModelDoc("WordPiece", "", "##")}
               \cup {ModelDoc("BPE", x, y) : x \in {"", "</w>"}, y \in {"", "##"}},
        d \in DecoderDocs, g \in PaddingDocs}

ParseOptions ==
    {[number_of_inputs |-> None, add_special_tokens |-> TRUE, skip_special_tokens |-> FALSE,
      clean_up_tokenization_spaces |-> "None", use_max_padding |-> FALSE],
     [number_of_inputs |-> 2, add_special_tokens |-> FALSE, skip_special_tokens |-> TRUE,
      clean_up_tokenization_spaces |-> "True", use_max_padding |-> TRUE],
     [number_of_inputs |-> None, add_special_tokens |-> TRUE, skip_special_tokens |-> TRUE,
      clean_up_tokenization_spaces |-> "False", use_max_padding |-> FALSE]}

NoPipeline == [steps |-> <<>>, vocab |-> <<>>, number_of_inputs |-> 0, eos_token_id |-> None]

IdleParser == [phase |-> "idle"]
IdleMutator == [phase |-> "idle"]
IdlePrefix == [phase |-> "idle"]

InitCompile ==
    /\ \/ \E tj \in FrontConfigs, max_length \in {None, MaxLength} :
              parser = new_parser(Tokenizer(max_length, FALSE), tj)
       \/ \E tj \in BackConfigs, clean_up \in BOOLEAN :
              parser = new_parser(Tokenizer(MaxLength, clean_up), tj)
    /\ calls = <<>>
    /\ sp = IdleMutator
    /\ px = IdlePrefix

\* one call of parse on the parser, with its arguments
Parse(o) ==
    /\ Len(calls) < MaxParses
    /\ LET after == parse(parser, o.number_of_inputs, o.add_special_tokens,
                          o.skip_special_tokens, o.clean_up_tokenization_spaces,
                          o.use_max_padding)
       IN  /\ parser' = after
           /\ calls' = Append(calls,
                   [options |-> o,
                    raised |-> after.raised,
                    pipeline |-> IF after.raised = "" THEN after.pipeline ELSE NoPipeline,
                    num_of_added_tokens |-> after.num_of_added_tokens])
    /\ UNCHANGED <<sp, px>>

NextCompile == \E o \in ParseOptions : Parse(o)

SpecCompile == InitCompile /\ [][NextCompile]_vars

(***************************************************************************)
(* Claims about the compiler (checked under SpecCompile).                  *)
(***************************************************************************)
\* a stage sub-document that is a rule or a Sequence of rules carries a type
\* tag outside the stage's table
HasTagOutside(doc, members, table) ==
    /\ doc.type # "null"
    /\ IF doc.type = "Sequence"
       THEN \E i \in DOMAIN members : members[i].type \notin table
       ELSE doc.type \notin table

\* a post-processor sub-document that resolves to no combine-segments rule of
\* the table
PostProcessorOutside(doc) ==
    /\ doc.type # "null"
    /\ IF doc.type = "Sequence"
       THEN \A i \in DOMAIN doc.processors : doc.processors[i].type \notin PostProcessorTypes
       ELSE doc.type \notin PostProcessorTypes

FrontStageOutside(tj) ==
    \/ HasTagOutside(tj.normalizer,
                     IF tj.normalizer.type = "Sequence" THEN tj.normalizer.normalizers ELSE <<>>,
                     NormalizerTypes)
    \/ HasTagOutside(tj.pre_tokenizer,
                     IF tj.pre_tokenizer.type = "Sequence"
                     THEN tj.pre_tokenizer.pretokenizers ELSE <<>>,
                     PreTokenizerTypes)
    \/ tj.model.type \notin {"WordPiece", "BPE"}

Raised(call) == call.raised # ""

\* C1 as stated: whenever the normalizer, pre-tokenizer, subword-model or
\* post-processor sub-document carries a type tag outside its stage's dispatch
\* table (Sequence normalizer/pre-tokenizer: any member; Sequence
\* post-processor: no member in the table), parse raises and returns no
\* pipeline.
C1_AsStated ==
    \A i \in DOMAIN calls :
        (FrontStageOutside(parser.tokenizer_json)
         \/ PostProcessorOutside(parser.tokenizer_json.post_processor))
        => (Raised(calls[i]) /\ calls[i].pipeline = NoPipeline)

\* C1 amended: the same, except that a post-processor whose own type tag is
\* "ByteLevel" is accepted although the table lacks it (it contributes only
\* truncation and padding); every other tag outside a table makes parse raise
\* an OVTypeError and return no pipeline.
C1_UnsupportedRuleRaises ==
    \A i \in DOMAIN calls :
        (FrontStageOutside(parser.tokenizer_json)
         \/ (PostProcessorOutside(parser.tokenizer_json.post_processor)
             /\ parser.tokenizer_json.post_processor.type # "ByteLevel"))
        => (Raised(calls[i]) /\ calls[i].pipeline = NoPipeline)

\* a parse call raised on a Sequence normalizer whose first member is in the
\* table (its steps were added) and whose second is not
C1_Witness ==
    /\ calls # <<>>
    /\ Raised(calls[1])
    /\ calls[1].pipeline = NoPipeline
    /\ parser.tokenizer_json.normalizer.type = "Sequence"
    /\ Len(parser.tokenizer_json.normalizer.normalizers) = 2
    /\ parser.tokenizer_json.normalizer.normalizers[1].type \in NormalizerTypes
    /\ parser.tokenizer_json.normalizer.normalizers[2].type \notin NormalizerTypes
    /\ parser.pipeline.steps # <<>>

\* the declared maximum length: the truncation sub-document's, else the
\* tokenizer's model_max_length
DeclaredMaxLength(p) ==
    IF p.tokenizer_json.truncation.type # "null"
    THEN p.tokenizer_json.truncation.max_length
    ELSE p.original_tokenizer.model_max_length

\* C2: in the pipeline of every parse call that returned, each
\* combine-segments step reporting k added tokens is directly preceded by a
\* truncation step built with num_of_added_tokens = k and so with
\* max_length = L - k, L the declared maximum length.
C2_TruncationBudget ==
    \A i \in DOMAIN calls :
        (~Raised(calls[i]) /\ DeclaredMaxLength(parser) # None) =>
            LET steps == calls[i].pipeline.steps
            IN  \A j \in DOMAIN steps :
                    steps[j].step = "CombineSegmentsStep" =>
                        /\ j > 1
                        /\ steps[j - 1].step = "TruncationStep"
                        /\ steps[j - 1].num_of_added_tokens = steps[j].number_of_added_tokens
                        /\ steps[j - 1].max_length =
                               DeclaredMaxLength(parser) - steps[j].number_of_added_tokens

\* C3: any two parse calls of the same document with the same options that
\* returned handed out the same step sequence and the same vocabulary.
C3_SameConfigSamePipeline ==
    \A i, j \in DOMAIN calls :
        (~Raised(calls[i]) /\ ~Raised(calls[j]) /\ calls[i].options = calls[j].options) =>
            /\ calls[i].pipeline.steps = calls[j].pipeline.steps
            /\ calls[i].pipeline.vocab = calls[j].pipeline.vocab

\* the decoding steps the parser's pipeline held when call i began: those of
\* the last call before it that returned (a call that raises stops before
\* the decoding stage)
DecodingBefore(i) ==
    LET returned == {k \in 1..(i - 1) : ~Raised(calls[k])}
    IN  IF returned = {} THEN <<>>
        ELSE decoding_steps(calls[CHOOSE k \in returned : \A h \in returned : h <= k].pipeline)

\* the steps the decoding stage of call i added
DecodingAdded(i) ==
    LET now == decoding_steps(calls[i].pipeline)
    IN  SubSeq(now, Len(DecodingBefore(i)) + 1, Len(now))

\* the stage-specific decoder steps: those made for a decoder rule
IsDecoderRuleStep(s) ==
    \/ s.step \in {"FuseStep", "ByteFallbackStep", "CharsToBytesStep"}
    \/ s.step = "RegexDecodingStep" /\ s.arg \in {"replace", "strip"}

\* cleanup is requested by the argument or, when it is None, by the tokenizer
CleanupRequested(i) ==
    IF calls[i].options.clean_up_tokenization_spaces = "None"
    THEN parser.original_tokenizer.clean_up_tokenization_spaces
    ELSE calls[i].options.clean_up_tokenization_spaces = "True"

\* the rules that follow the decoder steps, in the claimed order
ClosingRules(i) ==
    (IF parser.tokenizer_json.model.end_of_word_suffix # ""
     THEN <<Step("RegexDecodingStep", "replace_end_of_word_suffix")>> ELSE <<>>)
    \o (IF parser.tokenizer_json.model.continuing_subword_prefix # ""
        THEN <<Step("RegexDecodingStep", "replace_continuing_subword_prefix")>> ELSE <<>>)
    \o (IF CleanupRequested(i)
        THEN <<Step("RegexDecodingStep", "clean_up_tokenization_spaces")>> ELSE <<>>)

\* C14: in every parse call that returned, the decoding stage added nothing
\* when the model is WordPiece or the decoder document is null; otherwise it
\* added, last in the pipeline and in this order, one vocabulary-lookup step,
\* the decoder steps, the end-of-word-suffix rule exactly when the suffix is
\* non-empty, the continuing-subword-prefix rule exactly when the prefix is
\* non-empty, and the cleanup rule exactly when cleanup is requested.
C14_DecodingOrder ==
    \A i \in DOMAIN calls :
        ~Raised(calls[i]) =>
            LET tj == parser.tokenizer_json
                steps == calls[i].pipeline.steps
                now == decoding_steps(calls[i].pipeline)
                added == DecodingAdded(i)
            IN  /\ SubSeq(now, 1, Len(DecodingBefore(i))) = DecodingBefore(i)
                /\ SubSeq(steps, Len(steps) - Len(added) + 1, Len(steps)) = added
                /\ IF tj.model.type = "WordPiece" \/ tj.decoder.type = "null"
                   THEN added = <<>>
                   ELSE /\ added # <<>>
                        /\ added[1].step = "VocabDecoderStep"
                        /\ \A k \in 2..Len(added) : added[k].step # "VocabDecoderStep"
                        /\ Tail(added) = SelectSeq(Tail(added), IsDecoderRuleStep)
                                             \o ClosingRules(i)

\* a call returned for a model with a suffix and a prefix, a Sequence decoder
\* and cleanup requested: lookup, decoder step, suffix, prefix, cleanup
C14_Witness ==
    /\ calls # <<>>
    /\ ~Raised(calls[1])
    /\ parser.tokenizer_json.model.end_of_word_suffix # ""
    /\ parser.tokenizer_json.model.continuing_subword_prefix # ""
    /\ parser.tokenizer_json.decoder.type = "Sequence"
    /\ CleanupRequested(1)
    /\ Len(DecodingAdded(1)) = 5
    /\ DecodingAdded(1)[1].step = "VocabDecoderStep"
    /\ DecodingAdded(1)[2] = Step("RegexDecodingStep", "replace")
    /\ SubSeq(DecodingAdded(1), 3, 5) = ClosingRules(1)

RECURSIVE RecognizedSteps(_)
\* the steps of the members of a Sequence decoder whose type the table has,
\* in list order
RecognizedSteps(decoders) ==
    IF decoders = <<>> THEN <<>>
    ELSE (IF Head(decoders).type \in DecoderTypes THEN decoding_map(Head(decoders)) ELSE <<>>)
             \o RecognizedSteps(Tail(decoders))

\* C15: a parse call on a document with a Sequence decoder (and a model that
\* is decoded) returns whatever the members' types are, and the decoder steps
\* it added are those of the members with a recognized type, in list order;
\* a member with an unrecognized type adds nothing and raises nothing.
C15_SequenceDecoderSkips ==
    \A i \in DOMAIN calls :
        (parser.tokenizer_json.decoder.type = "Sequence"
         /\ parser.tokenizer_json.model.type # "WordPiece") =>
            /\ ~Raised(calls[i])
            /\ SelectSeq(DecodingAdded(i), IsDecoderRuleStep)
                   = RecognizedSteps(parser.tokenizer_json.decoder.decoders)

\* a call returned for a Sequence decoder with a recognized and an
\* unrecognized member, with the one step of the recognized member
C15_Witness ==
    /\ calls # <<>>
    /\ ~Raised(calls[1])
    /\ parser.tokenizer_json.decoder.type = "Sequence"
    /\ parser.tokenizer_json.model.type # "WordPiece"
    /\ \E k \in DOMAIN parser.tokenizer_json.decoder.decoders :
           parser.tokenizer_json.decoder.decoders[k].type \notin DecoderTypes
    /\ \E k \in DOMAIN parser.tokenizer_json.decoder.decoders :
           parser.tokenizer_json.decoder.decoders[k].type \in DecoderTypes
    /\ SelectSeq(DecodingAdded(1), IsDecoderRuleStep) = <<Step("RegexDecodingStep", "replace")>>

\* C16: the pipeline a parse call returned stays as it was returned: after
\* any later parse call on the same parser, returning or raising, the
\* pipeline object (the parser's own) has the step sequence, the vocabulary
\* and the input arity it was returned with, and the parser's count of added
\* tokens is the one that call left.
C16_ReturnedPipelineFrozen ==
    \A i \in DOMAIN calls :
        ~Raised(calls[i]) =>
            /\ parser.pipeline.steps = calls[i].pipeline.steps
            /\ parser.pipeline.vocab = calls[i].pipeline.vocab
            /\ parser.pipeline.number_of_inputs = calls[i].pipeline.number_of_inputs
            /\ parser.num_of_added_tokens = calls[i].num_of_added_tokens

(***************************************************************************)
(* The mutator as a state machine: a model file and the arguments of a     *)
(* call; the call is made on the file, and once more on what it returned.  *)
(***************************************************************************)
OtherTexts == <<"a", "b", "c", "d", "e">>

\* a vocabulary of n pieces with texts all different, the unknown piece at
\* position u, the others typed by types
ModelFile(n, u, types) ==
    [pieces |-> [i \in 1..n |->
                    IF i = u THEN Piece("<unk>", UNKNOWN, 0)
                    ELSE LET k == IF i < u THEN i ELSE i - 1
                         IN  Piece(OtherTexts[k], types[k], 0 - i)],
     unk_surface |-> "??",
     add_dummy_prefix |-> FALSE]

ModelFiles ==
    UNION {{ModelFile(n, u, types) :
                u \in 1..n, types \in [1..(n - 1) -> {NORMAL, CONTROL, USER_DEFINED}]} :
           n \in 2..MaxPieces}

InsertionTexts == {"<unk>", "a", "b", "s"}

\* the add_tokens dicts: at most two requested insertions
Insertions ==
    UNION {[ids -> InsertionTexts] :
           ids \in {x \in SUBSET (0..MaxId) : Cardinality(x) <= 2}}

\* the tokenizer the model file belongs to: decode gives the text of an added
\* token or of a piece of the file and nothing for any other id, or (decodes
\* false) nothing for every id
HfTokenizer(file, add_tokens, vocab_size, decodes) ==
    [vocab_size |-> vocab_size,
     decode |-> [id \in 0..(MaxId + MaxPieces) |->
                    IF ~decodes THEN ""
                    ELSE IF id \in DOMAIN add_tokens THEN add_tokens[id]
                    ELSE IF id < Len(file.pieces) THEN file.pieces[id + 1].piece
                    ELSE ""]]

InitMutate ==
    /\ \E file \in ModelFiles, add_tokens \in Insertions, skip \in BOOLEAN,
          vocab_size \in {None, MaxPieces + 1}, prefix_space \in {"None", "True"},
          decodes \in BOOLEAN :
           sp = [phase |-> "loaded",
                 file |-> file,
                 add_tokens |-> add_tokens,
                 hf_tokenizer |-> HfTokenizer(file, add_tokens, vocab_size, decodes),
                 skip_special_tokens |-> skip,
                 add_prefix_space |-> prefix_space,
                 first |-> NoModel,
                 second |-> NoModel]
    /\ parser = IdleParser
    /\ calls = <<>>
    /\ px = IdlePrefix

\* the mutator is called on the model file
Mutate ==
    /\ sp.phase = "loaded"
    /\ sp' = [sp EXCEPT
                 !.phase = "mutated",
                 !.first = modify_sentencepiece_model(
                               sp.file, sp.add_tokens, sp.hf_tokenizer,
                               sp.skip_special_tokens, sp.add_prefix_space)]
    /\ UNCHANGED <<parser, calls, px>>

\* the mutator is called again, with the same arguments, on the model it
\* returned
MutateAgain ==
    /\ sp.phase = "mutated"
    /\ sp.first.status = "ok"
    /\ sp' = [sp EXCEPT
                 !.phase = "remutated",
                 !.second = modify_sentencepiece_model(
                                [pieces |-> sp.first.pieces,
                                 unk_surface |-> sp.first.unk_surface,
                                 add_dummy_prefix |-> sp.first.add_dummy_prefix],
                                sp.add_tokens, sp.hf_tokenizer,
                                sp.skip_special_tokens, sp.add_prefix_space)]
    /\ UNCHANGED <<parser, calls, px>>

NextMutate == Mutate \/ MutateAgain

SpecMutate == InitMutate /\ [][NextMutate]_vars

(***************************************************************************)
(* Claims about the mutator (checked under SpecMutate).                    *)
(***************************************************************************)
\* C4: the second run, on the model the first run returned and with the same
\* insertions and suppression setting, returns that model unchanged: the same
\* pieces in the same order with the same type tags, and the same
\* unknown-surface field.
C4_Idempotent ==
    sp.phase = "remutated" =>
        /\ sp.second.status = "ok"
        /\ sp.second.pieces = sp.first.pieces
        /\ sp.second.unk_surface = sp.first.unk_surface

UnknownPieces(pieces) == {i \in DOMAIN pieces : pieces[i].type = UNKNOWN}

NamesText(add_tokens, text) == \E id \in DOMAIN add_tokens : add_tokens[id] = text

\* C5: when no requested insertion names the text of the unknown piece, the
\* returned model has exactly one piece of the unknown type, its text is the
\* text the unknown piece had in the file, and the unknown-surface field
\* equals it.
C5_UnknownSurface ==
    (sp.phase = "mutated" /\ sp.first.status = "ok"
     /\ ~NamesText(sp.add_tokens, "<unk>")) =>
        /\ Cardinality(UnknownPieces(sp.first.pieces)) = 1
        /\ \A i \in UnknownPieces(sp.first.pieces) :
               /\ sp.first.pieces[i].piece = "<unk>"
               /\ sp.first.unk_surface = sp.first.pieces[i].piece

(***************************************************************************)
(* The requests of one call, one by one (checked under SpecMutate).        *)
(***************************************************************************)
RECURSIVE loop_trace(_, _, _, _, _)
\* the passes of the for loop of the first call: for every (idx, token) in
\* ascending idx order, model.pieces before and after the pass and what the
\* pass raised, and new_piece as it is before the type policy is applied
loop_trace(st, file_pieces, add_tokens, hf_tokenizer, skip_special_tokens) ==
    IF DOMAIN add_tokens = {} \/ st.raised # "" THEN <<>>
    ELSE LET idx == CHOOSE i \in DOMAIN add_tokens : \A k \in DOMAIN add_tokens : i <= k
             rest == [k \in DOMAIN add_tokens \ {idx} |-> add_tokens[k]]
             next == add_token(st, file_pieces, idx, add_tokens[idx], hf_tokenizer, skip_special_tokens)
             exists == existing(file_pieces, add_tokens[idx])
             \* new_piece as the pass takes it: the position in model.pieces
             \* of the piece reused or popped, 0 for a copy of the last piece
             taken == IF idx < Len(st.pieces) /\ st.pieces[idx + 1].piece = add_tokens[idx]
                      THEN idx + 1
                      ELSE IF exists # 0 THEN first_equal(st.pieces, st.orig[exists])
                      ELSE 0
         IN  <<[idx |-> idx, token |-> add_tokens[idx],
                before |-> StripOids(st.pieces), after |-> StripOids(next.pieces),
                new_piece |-> IF taken # 0 THEN Value(st.pieces[taken])
                              ELSE [Value(st.pieces[Len(st.pieces)]) EXCEPT
                                       !.piece = add_tokens[idx]],
                raised |-> next.raised]>>
                 \o loop_trace(next, file_pieces, rest, hf_tokenizer, skip_special_tokens)

\* the passes of the call made in this behaviour
Passes ==
    loop_trace([pieces |-> [i \in DOMAIN sp.file.pieces |-> Stored(sp.file.pieces[i], i)],
                orig |-> sp.file.pieces, raised |-> ""],
               sp.file.pieces, sp.add_tokens, sp.hf_tokenizer, sp.skip_special_tokens)

Texts(pieces) == [i \in DOMAIN pieces |-> pieces[i].piece]

Positions(pieces, text) == {j \in DOMAIN pieces : pieces[j].piece = text}

\* the pass finds the requested text at the requested id
IsReuse(pass) == pass.idx < Len(pass.before) /\ pass.before[pass.idx + 1].piece = pass.token

\* C11: every pass applies exactly one case, in this priority.  Reuse: the
\* piece at id has the text, and the vocabulary keeps its pieces and order.
\* Else relocate: the text is somewhere in the current vocabulary; that piece
\* is removed and re-inserted at id, the pieces between the two positions
\* moving by one, and the text is not cloned (it is in the vocabulary as
\* often as before).  Else clone: the last piece of the current vocabulary is
\* copied (its score), renamed and inserted at id.
C11_ReuseRelocateClone ==
    sp.phase = "mutated" =>
        \A t \in 1..Len(Passes) :
            LET pass == Passes[t]
                present == Positions(pass.before, pass.token)
            IN  /\ pass.raised = ""
                /\ IsReuse(pass) => Texts(pass.after) = Texts(pass.before)
                /\ (~IsReuse(pass) /\ present # {}) =>
                       /\ pass.idx < Len(pass.after)
                       /\ pass.after[pass.idx + 1].piece = pass.token
                       /\ Cardinality(Positions(pass.after, pass.token))
                              = Cardinality(present)
                       /\ pass.idx < Len(pass.before) =>
                              \E j \in present :
                                  Texts(pass.after)
                                      = InsertAt(RemoveAt(Texts(pass.before), j),
                                                 pass.idx, pass.token)
                /\ (~IsReuse(pass) /\ present = {}) =>
                       /\ pass.idx < Len(pass.after)
                       /\ pass.after[pass.idx + 1].piece = pass.token
                       /\ pass.after[pass.idx + 1].score
                              = pass.before[Len(pass.before)].score
                       /\ pass.idx <= Len(pass.before) =>
                              Texts(pass.after)
                                  = InsertAt(Texts(pass.before), pass.idx, pass.token)

\* the file's pieces that no request names are in the returned vocabulary
\* with their type tag
UnnamedKeepType ==
    \A i \in DOMAIN sp.file.pieces :
        ~NamesText(sp.add_tokens, sp.file.pieces[i].piece) =>
            \E j \in DOMAIN sp.first.pieces : sp.first.pieces[j] = sp.file.pieces[i]

\* C12 as stated: when suppressing, the piece of every pass that inserts or
\* relocates ends with the control type unless its type was the unknown
\* type; when not suppressing, the piece of every pass ends with the
\* user-defined type when its type was control; pieces that no request names
\* keep their type tag.
C12_AsStated ==
    (sp.phase = "mutated" /\ sp.first.status = "ok") =>
        /\ \A t \in 1..Len(Passes) :
               LET pass == Passes[t]
                   type == pass.after[pass.idx + 1].type
                   from == pass.new_piece.type
               IN  /\ (sp.skip_special_tokens /\ ~IsReuse(pass)) =>
                          type = IF from = UNKNOWN THEN UNKNOWN ELSE CONTROL
                   /\ ~sp.skip_special_tokens =>
                          type = IF from = CONTROL THEN USER_DEFINED ELSE from
        /\ UnnamedKeepType

\* C12 (amended): as stated, but when suppressing a piece whose type was the
\* user-defined type keeps it, like one of the unknown type.
C12_TypePolicy ==
    (sp.phase = "mutated" /\ sp.first.status = "ok") =>
        /\ \A t \in 1..Len(Passes) :
               LET pass == Passes[t]
                   type == pass.after[pass.idx + 1].type
                   from == pass.new_piece.type
               IN  /\ (sp.skip_special_tokens /\ ~IsReuse(pass)) =>
                          type = IF from \in {UNKNOWN, USER_DEFINED}
                                 THEN from ELSE CONTROL
                   /\ ~sp.skip_special_tokens =>
                          type = IF from = CONTROL THEN USER_DEFINED ELSE from
        /\ UnnamedKeepType

\* a call that suppresses special tokens relocated or cloned a user-defined
\* piece, which kept its type, and made a normal piece a control piece
C12_Witness ==
    /\ sp.phase = "mutated"
    /\ sp.first.status = "ok"
    /\ sp.skip_special_tokens
    /\ \E t \in 1..Len(Passes) :
           /\ ~IsReuse(Passes[t])
           /\ Passes[t].new_piece.type = USER_DEFINED
           /\ Passes[t].after[Passes[t].idx + 1].type = USER_DEFINED
    /\ \E t \in 1..Len(Passes) :
           /\ ~IsReuse(Passes[t])
           /\ Passes[t].new_piece.type = NORMAL
           /\ Passes[t].after[Passes[t].idx + 1].type = CONTROL

\* C19: when the call has returned, every requested (id, text) is at its
\* target: the vocabulary has an index id and the piece there has the text,
\* whatever the later requests of the call moved.
C19_RequestsAtTarget ==
    (sp.phase = "mutated" /\ sp.first.status = "ok") =>
        \A id \in DOMAIN sp.add_tokens :
            /\ id < Len(sp.first.pieces)
            /\ sp.first.pieces[id + 1].piece = sp.add_tokens[id]

(***************************************************************************)
(* Batched prefix insertion: add_prefix_tokens and the part of             *)
(* convert_sentencepiece_model_tokenizer that calls it.  A tensor is a     *)
(* sequence (of rows, for rank 2); row and column numbers in indices are   *)
(* the code's, counted from 0.                                             *)
(***************************************************************************)
\* the bounds of the batches and prefixes
MaxRows == 2

MaxCols == 3

MaxPrefix == 2

\* the three things the name attention_mask can stand for
Tensor(rows) == [is |-> "tensor", rows |-> rows]

NoneMask == [is |-> "None", rows |-> <<>>]

Unbound == [is |-> "unbound", rows |-> <<>>]

\* what a call gives back: the four returned tensors, or the exception raised
Returned(dense_shape, indices, values, attention_mask) == [status |-> "ok", dense_shape |-> dense_shape, indices |-> indices, values |-> values, attention_mask |-> attention_mask]

Failed(exception) == [status |-> exception, dense_shape |-> <<>>, indices |-> <<>>, values |-> <<>>, attention_mask |-> NoneMask]

NotCalled == Failed("none")

\* [..., ::-1] and the Reverse node on the last axis
Reverse(row) == [i \in 1..Len(row) |-> row[Len(row) + 1 - i]]

RECURSIVE Sum(_)
Sum(row) == IF row = <<>> THEN 0 ELSE Head(row) + Sum(Tail(row))

\* opset.reduce_sum(attention_mask, -1, keep_dims=True)
reduce_sum(rows) == [r \in 1..Len(rows) |-> Sum(rows[r])]

\* opset.broadcast of a scalar to [rows, cols]
broadcast(value, rows, cols) == [r \in 1..rows |-> [c \in 1..cols |-> value]]

\* the guard of add_prefix_tokens without its test: nothing is raised
precondition_unchecked(attention_mask, do_left_padding) == ""

\* the guard of add_prefix_tokens: what it raises ("" when it raises nothing)
precondition(attention_mask, do_left_padding) ==
    IF do_left_padding /\ attention_mask.is = "None" THEN "ValueError" ELSE ""

\* the prefix broadcast as it is given, whatever the padding side
prefix_as_given(prefix_tokens, do_left_padding) == prefix_tokens

\* the prefix that is broadcast: reversed under left padding
prefix_to_broadcast(prefix_tokens, do_left_padding) ==
    IF do_left_padding THEN Reverse(prefix_tokens) ELSE prefix_tokens

\* the existing indices: moved right by the prefix length under right padding
indices_shifted(indices, prefix_len, do_left_padding) ==
    IF do_left_padding THEN indices
    ELSE [i \in 1..Len(indices) |-> <<indices[i][1], indices[i][2] + prefix_len>>]

\* concat([x_indices, y_indices], axis=1): for row r (from 0) and place j (from
\* 0) of the prefix, in row-major order, the pair (r, start of row r + j)
prefix_indices(batch_size, prefix_len, attention_mask, do_left_padding) ==
    [k \in 1..(batch_size * prefix_len) |->
        LET r == (k - 1) \div prefix_len
            j == (k - 1) % prefix_len
        IN  <<r, IF do_left_padding
                 THEN reduce_sum(attention_mask.rows)[r + 1] + j
                 ELSE j>>]

\* concat([ones of [batch, prefix_len], attention_mask], axis=1)
extended_mask(batch_size, prefix_len, attention_mask) ==
    Tensor([r \in 1..batch_size |->
               [c \in 1..prefix_len |-> 1] \o attention_mask.rows[r]])

add_prefix_tokens(prefix_tokens, dense_shape, indices, values, attention_mask, do_left_padding) ==
    IF precondition(attention_mask, do_left_padding) # ""
    THEN Failed(precondition(attention_mask, do_left_padding))
    ELSE LET prefix == prefix_to_broadcast(prefix_tokens, do_left_padding)
             prefix_len == Len(prefix)
             new_shape == <<dense_shape[1], dense_shape[2] + prefix_len>>
             batch_size == new_shape[1]
             prefix_tokens_batch ==
                 [k \in 1..(batch_size * prefix_len) |->
                     prefix[((k - 1) % prefix_len) + 1]]
         IN  \* every node up to the mask is built from the other arguments;
             \* attention_mask.get_element_type() is the first use of a mask
             \* under right padding, reduce_sum the first under left padding
             IF attention_mask.is = "None" THEN Failed("AttributeError")
             ELSE Returned(
                      new_shape,
                      indices_shifted(indices, prefix_len, do_left_padding)
                          \o prefix_indices(batch_size, prefix_len,
                                            attention_mask, do_left_padding),
                      values \o prefix_tokens_batch,
                      extended_mask(batch_size, prefix_len, attention_mask))

\* the outputs of the SentencepieceTokenizer node run on a batch: a row per
\* sentence with its token ids in columns 0, 1, ... (back to front when
\* reverse is set), entries in row-major order, dense_shape [batch, longest]
RECURSIVE tokenizer_entries(_, _, _)
tokenizer_entries(sentences, r, reverse) ==
    IF r > Len(sentences) THEN <<>>
    ELSE LET ids == IF reverse THEN Reverse(sentences[r]) ELSE sentences[r]
         IN  [i \in 1..Len(ids) |-> [index |-> <<r - 1, i - 1>>, value |-> ids[i]]]
                 \o tokenizer_entries(sentences, r + 1, reverse)

RECURSIVE longest(_)
longest(sentences) ==
    IF sentences = <<>> THEN 0
    ELSE LET rest == longest(Tail(sentences))
         IN  IF Len(Head(sentences)) > rest THEN Len(Head(sentences)) ELSE rest

SentencepieceTokenizer(sentences, reverse) ==
    LET entries == tokenizer_entries(sentences, 1, reverse)
    IN  [indices |-> [k \in 1..Len(entries) |-> entries[k].index],
         values |-> [k \in 1..Len(entries) |-> entries[k].value],
         dense_shape |-> <<Len(sentences), longest(sentences)>>]

\* the ScatterNDUpdate node: data with updates[k] written at indices[k].  The
\* node leaves the order of updates that hit one cell open; the last one is
\* taken here, and the indices the converter passes are pairwise distinct
ScatterNDUpdate(data, indices, updates) ==
    [r \in 1..Len(data) |->
        [c \in 1..Len(data[r]) |->
            LET hits == {k \in 1..Len(indices) : indices[k] = <<r - 1, c - 1>>}
            IN  IF hits = {} THEN data[r][c]
                ELSE updates[CHOOSE k \in hits : \A h \in hits : h <= k]]]

\* what running the converted tokenizer gives, or the exception of the
\* conversion
Outputs(input_ids, attention_mask) == [status |-> "ok", input_ids |-> input_ids, attention_mask |-> attention_mask]

NoOutputs(exception) == [status |-> exception, input_ids |-> <<>>, attention_mask |-> NoneMask]

\* convert_sentencepiece_model_tokenizer from the tokenizer node on, and the
\* graph it builds run on a batch of sentences
convert_sentencepiece_model_tokenizer(sentences, hf_tokenizer, add_attention_mask, is_chatglm, add_special_tokens) ==
    LET do_left_padding == hf_tokenizer.padding_side = "left"
        node == SentencepieceTokenizer(sentences, do_left_padding)
        attention_mask ==
            IF add_attention_mask \/ do_left_padding
            THEN Tensor(ScatterNDUpdate(
                     broadcast(0, node.dense_shape[1], node.dense_shape[2]),
                     node.indices,
                     [k \in 1..Len(node.values) |-> 1]))
            ELSE Unbound
        prefixed ==
            IF is_chatglm /\ add_special_tokens
            THEN IF attention_mask.is = "unbound"
                 THEN Failed("UnboundLocalError")
                 ELSE add_prefix_tokens(hf_tokenizer.prefix_tokens,
                                        node.dense_shape, node.indices,
                                        node.values, attention_mask,
                                        do_left_padding)
            ELSE Returned(node.dense_shape, node.indices, node.values,
                          attention_mask)
        default_value ==
            IF hf_tokenizer.pad_token_id = None THEN 0
            ELSE hf_tokenizer.pad_token_id
        scattered_input_ids ==
            ScatterNDUpdate(
                broadcast(default_value, prefixed.dense_shape[1],
                          prefixed.dense_shape[2]),
                prefixed.indices, prefixed.values)
    IN  IF prefixed.status # "ok" THEN NoOutputs(prefixed.status)
        ELSE IF do_left_padding
        THEN Outputs([r \in 1..Len(scattered_input_ids) |->
                         Reverse(scattered_input_ids[r])],
                     Tensor([r \in 1..Len(prefixed.attention_mask.rows) |->
                                Reverse(prefixed.attention_mask.rows[r])]))
        ELSE Outputs(scattered_input_ids, prefixed.attention_mask)

(***************************************************************************)
(* BOS/EOS detection at the head of                                        *)
(* convert_sentencepiece_model_tokenizer.  An optional boolean is one of   *)
(* the strings "None", "True", "False"; an attribute the tokenizer lacks   *)
(* is "absent".                                                            *)
(***************************************************************************)
\* _fake_token_id = -0.5: a number no token id equals (token ids are >= 0)
fake_token_id == 0 - 1

Bool(b) == IF b THEN "True" ELSE "False"

\* the truth value Python gives an attribute
Truthy(value) == value = "True"

\* the try statement with an except clause that lets the exception through
build_inputs_uncaught(hf_tokenizer) ==
    IF hf_tokenizer.build_inputs = "raises" \/ (hf_tokenizer.build_inputs = "ids" /\ hf_tokenizer.ids = <<>>)
    THEN [raised |-> "Exception", add_bos_token |-> "None", add_eos_token |-> "None"]
    ELSE IF hf_tokenizer.build_inputs = "absent"
    THEN [raised |-> "", add_bos_token |-> "None", add_eos_token |-> "None"]
    ELSE [raised |-> "", add_bos_token |-> Bool(hf_tokenizer.ids[1] # fake_token_id), add_eos_token |-> Bool(hf_tokenizer.ids[Len(hf_tokenizer.ids)] # fake_token_id)]

\* elif hasattr(hf_tokenizer, "build_inputs_with_special_tokens"): the try
\* statement.  hf_tokenizer.ids is what the method returns for
\* [_fake_token_id]; the method raising, or _ids[0] raising on an empty
\* list, leaves both decisions None
build_inputs(hf_tokenizer) ==
    IF hf_tokenizer.build_inputs = "ids" /\ hf_tokenizer.ids # <<>>
    THEN [raised |-> "",
          add_bos_token |-> Bool(hf_tokenizer.ids[1] # fake_token_id),
          add_eos_token |-> Bool(hf_tokenizer.ids[Len(hf_tokenizer.ids)] # fake_token_id)]
    ELSE [raised |-> "", add_bos_token |-> "None", add_eos_token |-> "None"]

\* the fallbacks for add_eos_token, then for add_bos_token
fallback_eos(hf_tokenizer, add_eos_token) ==
    IF add_eos_token # "None" THEN add_eos_token
    ELSE IF hf_tokenizer.add_eos_token # "absent"
    THEN Bool(Truthy(hf_tokenizer.add_eos_token))
    ELSE Bool(hf_tokenizer.truncation_side = "right" \/ hf_tokenizer.padding_side = "right")

fallback_bos(hf_tokenizer, add_bos_token, add_eos_token) ==
    IF add_bos_token # "None" THEN add_bos_token
    ELSE LET flag == IF hf_tokenizer.add_bos_token # "absent"
                     THEN hf_tokenizer.add_bos_token ELSE add_eos_token
         IN  Bool(Truthy(flag) /\ hf_tokenizer.bos_token_id # None)

\* lines 529-558: the two decisions, or the exception that came through
detect_bos_eos(hf_tokenizer, add_special_tokens) ==
    LET first == IF hf_tokenizer.is_chatglm
                 THEN [raised |-> "", add_bos_token |-> "None", add_eos_token |-> "False"]
                 ELSE build_inputs(hf_tokenizer)
        add_eos_token == fallback_eos(hf_tokenizer, first.add_eos_token)
        add_bos_token == fallback_bos(hf_tokenizer, first.add_bos_token, add_eos_token)
    IN  IF first.raised # ""
        THEN [status |-> first.raised, add_bos_token |-> "None", add_eos_token |-> "None"]
        ELSE IF ~add_special_tokens
        THEN [status |-> "ok", add_bos_token |-> "False", add_eos_token |-> "False"]
        ELSE [status |-> "ok", add_bos_token |-> add_bos_token, add_eos_token |-> add_eos_token]

(***************************************************************************)
(* The state machine of prefix insertion: add_prefix_tokens is called on   *)
(* an encoding, or the converter is run for a tokenizer and the graph on a *)
(* batch.                                                                  *)
(***************************************************************************)
\* the prefix of length n: 100, 101, ...
Prefix(n) == [j \in 1..n |-> 99 + j]

Prefixes == {Prefix(n) : n \in 1..MaxPrefix}

\* the cells of S in row-major order
RECURSIVE row_major(_, _)
row_major(S, cols) ==
    IF S = {} THEN <<>>
    ELSE LET first == CHOOSE x \in S : \A y \in S :
                          x[1] * cols + x[2] <= y[1] * cols + y[2]
         IN  <<first>> \o row_major(S \ {first}, cols)

\* a well-formed encoding of the given shape: distinct cells inside the shape
\* in row-major order, one value a cell (5, 6, ...)
Encoding(rows, cols, S) ==
    [dense_shape |-> <<rows, cols>>,
     indices |-> row_major(S, cols),
     values |-> [k \in 1..Cardinality(S) |-> 4 + k]]

Encodings ==
    UNION {{Encoding(rows, cols, S) :
               S \in SUBSET ((0..(rows - 1)) \X (0..(cols - 1)))} :
           rows \in 1..MaxRows, cols \in 1..MaxCols}

\* the attention masks a caller passes with an encoding: none, one at exactly
\* the cells that hold an entry, that mask with its columns back to front,
\* one everywhere
MaskKinds == {"None", "cells", "mirrored", "ones"}

Mask(encoding, kind) ==
    LET rows == encoding.dense_shape[1]
        cols == encoding.dense_shape[2]
        held(r, c) == \E k \in 1..Len(encoding.indices) : encoding.indices[k] = <<r, c>>
    IN  IF kind = "None" THEN NoneMask
        ELSE Tensor([r \in 1..rows |-> [c \in 1..cols |->
                 IF kind = "ones" THEN 1
                 ELSE IF kind = "cells" THEN (IF held(r - 1, c - 1) THEN 1 ELSE 0)
                 ELSE (IF held(r - 1, cols - c) THEN 1 ELSE 0)]])

\* a batch of sentences as the tokenizer node sees them: the token ids of the
\* sentence of row r are 10 * r + 1, 10 * r + 2, ...
Sentence(r, n) == [i \in 1..n |-> 10 * r + i]

Batches ==
    UNION {{[r \in 1..rows |-> Sentence(r, lengths[r])] :
               lengths \in [1..rows -> 0..MaxCols]} :
           rows \in 1..MaxRows}

\* the tokenizers the converter is run for
PrefixTokenizers ==
    [padding_side : {"left", "right"},
     pad_token_id : {None, 3},
     prefix_tokens : Prefixes]

\* the tokenizers detection is run for: build_inputs_with_special_tokens is
\* absent, raises, or returns ids around the fake id (7 a BOS id, 8 an EOS id)
DetectTokenizers ==
    [is_chatglm : BOOLEAN,
     build_inputs : {"absent", "raises", "ids"},
     ids : {<<>>, <<fake_token_id>>, <<7, fake_token_id>>, <<fake_token_id, 8>>, <<7, fake_token_id, 8>>},
     add_bos_token : {"absent", "None", "True", "False"},
     add_eos_token : {"absent", "None", "True", "False"},
     truncation_side : {"", "left", "right"},
     padding_side : {"", "left", "right"},
     bos_token_id : {None, 7}]

NotDetected == [status |-> "none", add_bos_token |-> "None", add_eos_token |-> "None"]

InitPrefix ==
    /\ \/ \E hf_tokenizer \in DetectTokenizers, add_special_tokens \in BOOLEAN :
              px = [phase |-> "detect",
                    hf_tokenizer |-> hf_tokenizer,
                    add_special_tokens |-> add_special_tokens,
                    detected |-> NotDetected]
       \/ \E encoding \in Encodings, kind \in MaskKinds,
             prefix_tokens \in Prefixes, do_left_padding \in BOOLEAN :
              px = [phase |-> "call",
                    prefix_tokens |-> prefix_tokens,
                    encoding |-> encoding,
                    attention_mask |-> Mask(encoding, kind),
                    do_left_padding |-> do_left_padding,
                    result |-> NotCalled]
       \/ \E sentences \in Batches, hf_tokenizer \in PrefixTokenizers,
             add_attention_mask \in BOOLEAN, is_chatglm \in BOOLEAN,
             add_special_tokens \in BOOLEAN :
              px = [phase |-> "batch",
                    sentences |-> sentences,
                    hf_tokenizer |-> hf_tokenizer,
                    add_attention_mask |-> add_attention_mask,
                    is_chatglm |-> is_chatglm,
                    add_special_tokens |-> add_special_tokens,
                    outputs |-> NoOutputs("none")]
    /\ parser = IdleParser
    /\ calls = <<>>
    /\ sp = IdleMutator

\* add_prefix_tokens is called on the encoding
AddPrefixTokens ==
    /\ px.phase = "call"
    /\ px' = [px EXCEPT
                 !.phase = "called",
                 !.result = add_prefix_tokens(
                                px.prefix_tokens, px.encoding.dense_shape,
                                px.encoding.indices, px.encoding.values,
                                px.attention_mask, px.do_left_padding)]
    /\ UNCHANGED <<parser, calls, sp>>

\* the converter builds the tokenizer graph, which is run on the batch
Convert ==
    /\ px.phase = "batch"
    /\ px' = [px EXCEPT
                 !.phase = "converted",
                 !.outputs = convert_sentencepiece_model_tokenizer(
                                 px.sentences, px.hf_tokenizer,
                                 px.add_attention_mask, px.is_chatglm,
                                 px.add_special_tokens)]
    /\ UNCHANGED <<parser, calls, sp>>

\* the converter decides whether the tokenizer adds BOS and EOS
DetectBosEos ==
    /\ px.phase = "detect"
    /\ px' = [px EXCEPT
                 !.phase = "detected",
                 !.detected = detect_bos_eos(px.hf_tokenizer, px.add_special_tokens)]
    /\ UNCHANGED <<parser, calls, sp>>

NextPrefix == AddPrefixTokens \/ Convert \/ DetectBosEos

SpecPrefix == InitPrefix /\ [][NextPrefix]_vars

(***************************************************************************)
(* Claims about prefix insertion (checked under SpecPrefix).               *)
(***************************************************************************)
\* the number of (row, col, value) triples of row r
EntriesInRow(indices, r) == Cardinality({k \in 1..Len(indices) : indices[k][1] = r})

\* the rows an encoding stands for, 0 where no entry is
Dense(dense_shape, indices, values) == ScatterNDUpdate(broadcast(0, dense_shape[1], dense_shape[2]), indices, values)

\* the call satisfies the left-padding precondition
MeetsPrecondition == ~(px.do_left_padding /\ px.attention_mask.is = "None")

\* C6: for every well-formed encoding of R rows and C columns and every prefix
\* of length P (the call meeting the left-padding precondition), the call
\* returns an encoding of dense shape [R, C + P] with P triples more in every
\* row, R * P more in total, the existing values kept, and a mask of shape
\* [R, C + P] with P ones more in every row than the mask passed in.
C6_ShapeAndCounts ==
    (px.phase = "called" /\ MeetsPrecondition) =>
        LET R == px.encoding.dense_shape[1]
            C == px.encoding.dense_shape[2]
            P == Len(px.prefix_tokens)
            n == Len(px.encoding.indices)
        IN  /\ px.result.status = "ok"
            /\ px.result.dense_shape = <<R, C + P>>
            /\ \A r \in 0..(R - 1) :
                   EntriesInRow(px.result.indices, r)
                       = EntriesInRow(px.encoding.indices, r) + P
            /\ Len(px.result.indices) = n + R * P
            /\ Len(px.result.values) = n + R * P
            /\ SubSeq(px.result.values, 1, n) = px.encoding.values
            /\ px.attention_mask.is = "tensor" =>
                   /\ px.result.attention_mask.is = "tensor"
                   /\ Len(px.result.attention_mask.rows) = R
                   /\ \A r \in 1..R :
                          /\ Len(px.result.attention_mask.rows[r]) = C + P
                          /\ Sum(px.result.attention_mask.rows[r])
                                 = Sum(px.attention_mask.rows[r]) + P

\* the example of the round-trip property: dense_shape [2,3], indices (0,0),
\* (0,1),(1,0), values 5,6,7, mask [[1,1,0],[1,0,0]], prefix [100,101]
IsRightExample ==
    /\ px.encoding.dense_shape = <<2, 3>>
    /\ px.encoding.indices = <<<<0, 0>>, <<0, 1>>, <<1, 0>>>>
    /\ px.encoding.values = <<5, 6, 7>>
    /\ px.attention_mask = Tensor(<<<<1, 1, 0>>, <<1, 0, 0>>>>)
    /\ px.prefix_tokens = <<100, 101>>

\* C7: under right padding the call turns every entry (r, c, v) into
\* (r, c + P, v), gives every row r the entries (r, j, prefix[j]) for j in
\* 0..P-1, and a new mask row is P ones followed by the old mask row; on the
\* example the result has dense_shape [2,5], rows [100,101,5,6,0] and
\* [100,101,7,0,0], and 4 and 3 ones in the mask rows.
C7_RightPaddingShift ==
    (px.phase = "called" /\ ~px.do_left_padding) =>
        LET R == px.encoding.dense_shape[1]
            P == Len(px.prefix_tokens)
            n == Len(px.encoding.indices)
            out == px.result
        IN  /\ out.status = "ok"
            /\ Len(out.indices) = n + R * P
            /\ Len(out.values) = n + R * P
            /\ \A k \in 1..n :
                   /\ out.indices[k] = <<px.encoding.indices[k][1],
                                         px.encoding.indices[k][2] + P>>
                   /\ out.values[k] = px.encoding.values[k]
            /\ \A r \in 0..(R - 1), j \in 0..(P - 1) :
                   /\ out.indices[n + r * P + j + 1] = <<r, j>>
                   /\ out.values[n + r * P + j + 1] = px.prefix_tokens[j + 1]
            /\ px.attention_mask.is = "tensor" =>
                   /\ out.attention_mask.is = "tensor"
                   /\ \A r \in 1..R :
                          out.attention_mask.rows[r]
                              = [c \in 1..P |-> 1] \o px.attention_mask.rows[r]
            /\ IsRightExample =>
                   /\ out.dense_shape = <<2, 5>>
                   /\ Dense(out.dense_shape, out.indices, out.values)
                          = <<<<100, 101, 5, 6, 0>>, <<100, 101, 7, 0, 0>>>>
                   /\ Sum(out.attention_mask.rows[1]) = 4
                   /\ Sum(out.attention_mask.rows[2]) = 3

\* the entries of every row are in the columns 0 .. m_r - 1, m_r the sum of
\* the row's mask: the layout the tokenizer node gives under left padding
LeftRuns ==
    \A r \in 1..px.encoding.dense_shape[1] :
        {px.encoding.indices[k][2] :
            k \in {h \in 1..Len(px.encoding.indices) :
                      px.encoding.indices[h][1] = r - 1}}
            = 0..(Sum(px.attention_mask.rows[r]) - 1)

C9_LeftPaddingNeedsMask ==
    (px.phase = "called" /\ px.do_left_padding
     /\ px.attention_mask.is = "None") =>
        /\ px.result.status = "ValueError"
        /\ px.result = Failed("ValueError")

\* a call under left padding with no mask and a non-empty encoding was made
\* and was rejected
C9_Witness ==
    /\ px.phase = "called"
    /\ px.do_left_padding
    /\ px.attention_mask.is = "None"
    /\ Len(px.encoding.indices) > 0
    /\ px.result.status = "ValueError"

\* C10: every call that meets the left-padding precondition (right padding,
\* or a mask passed) returns a result, a right-padding call with no mask
\* included, and so does the converter whether or not the attention mask was
\* requested.
C10_Total ==
    /\ (px.phase = "called" /\ MeetsPrecondition) => px.result.status = "ok"
    /\ px.phase = "converted" => px.outputs.status = "ok"

\* C17: every call on an encoding with a mask of its dense shape, under
\* either padding side, returns an encoding that meets the invariant again:
\* the (row, col) pairs are pairwise distinct, every column is inside the new
\* dense shape, and there is one value an index.
C17_InvariantPreserved ==
    (px.phase = "called" /\ px.attention_mask.is = "tensor") =>
        /\ px.result.status = "ok"
        /\ \A k, h \in 1..Len(px.result.indices) :
               px.result.indices[k] = px.result.indices[h] => k = h
        /\ \A k \in 1..Len(px.result.indices) :
               /\ 0 <= px.result.indices[k][2]
               /\ px.result.indices[k][2] < px.result.dense_shape[2]
        /\ Len(px.result.values) = Len(px.result.indices)

\* the mask that is 1 at exactly the cells of the indices
CellsMask(dense_shape, indices) ==
    Tensor([r \in 1..dense_shape[1] |-> [c \in 1..dense_shape[2] |->
               IF \E k \in 1..Len(indices) : indices[k] = <<r - 1, c - 1>> THEN 1 ELSE 0]])

\* C18: whenever the mask passed is 1 at exactly the cells that hold an
\* entry, the mask returned is 1 at exactly the cells that hold an entry of
\* the encoding returned, under either padding side.
C18_MaskFollowsCells ==
    (/\ px.phase = "called"
     /\ px.attention_mask = CellsMask(px.encoding.dense_shape, px.encoding.indices)) =>
        /\ px.result.status = "ok"
        /\ px.result.attention_mask = CellsMask(px.result.dense_shape, px.result.indices)

(***************************************************************************)
(* Claims about BOS/EOS detection (checked under SpecPrefix).              *)
(***************************************************************************)
\* the wrapping call is made and fails: the method raises, or reading the
\* first element of what it returned does
WrapFails ==
    /\ ~px.hf_tokenizer.is_chatglm
    /\ \/ px.hf_tokenizer.build_inputs = "raises"
       \/ px.hf_tokenizer.build_inputs = "ids" /\ px.hf_tokenizer.ids = <<>>

\* the wrapping call is made and returns ids
WrapSucceeds ==
    /\ ~px.hf_tokenizer.is_chatglm
    /\ px.hf_tokenizer.build_inputs = "ids"
    /\ px.hf_tokenizer.ids # <<>>

\* the same tokenizer without the wrapping capability
WithoutWrapping == [px.hf_tokenizer EXCEPT !.build_inputs = "absent"]

\* nothing propagates, the two decisions are booleans, and they are those of
\* the fallback chain for the same tokenizer without the wrapping capability
FailureFallsBack ==
    WrapFails =>
        /\ px.detected.status = "ok"
        /\ px.detected.add_bos_token \in {"True", "False"}
        /\ px.detected.add_eos_token \in {"True", "False"}
        /\ px.detected = detect_bos_eos(WithoutWrapping, px.add_special_tokens)

\* the decisions are 'first element differs from the sentinel' and 'last
\* element differs from the sentinel'
DecidedByWrap ==
    /\ px.detected.status = "ok"
    /\ px.detected.add_bos_token = Bool(px.hf_tokenizer.ids[1] # fake_token_id)
    /\ px.detected.add_eos_token
           = Bool(px.hf_tokenizer.ids[Len(px.hf_tokenizer.ids)] # fake_token_id)

\* C13 as stated: a failure of the wrapping call never propagates, and the two
\* boolean decisions are then those of the fallback chain for the same
\* tokenizer without the wrapping capability; when the wrapping call
\* succeeds, the decisions are exactly what the wrapped sentinel shows,
\* whatever the flags say.
C13_AsStated ==
    px.phase = "detected" =>
        /\ FailureFallsBack
        /\ WrapSucceeds => DecidedByWrap

\* C13 (amended): as stated, but the decisions are what the wrapped sentinel
\* shows only when special tokens are requested; with add_special_tokens
\* False both decisions are False.
C13_WrapFailureFallsBack ==
    px.phase = "detected" =>
        /\ FailureFallsBack
        /\ (WrapSucceeds /\ px.add_special_tokens) => DecidedByWrap
        /\ (WrapSucceeds /\ ~px.add_special_tokens) =>
               /\ px.detected.status = "ok"
               /\ px.detected.add_bos_token = "False"
               /\ px.detected.add_eos_token = "False"

\* the wrapping call raised for a tokenizer with add_eos_token set and no
\* add_bos_token attribute, and detection ended with both decisions True
C13_Witness ==
    /\ px.phase = "detected"
    /\ WrapFails
    /\ px.hf_tokenizer.build_inputs = "raises"
    /\ px.add_special_tokens
    /\ px.hf_tokenizer.add_eos_token = "True"
    /\ px.hf_tokenizer.add_bos_token = "absent"
    /\ px.hf_tokenizer.bos_token_id # None
    /\ px.detected = [status |-> "ok", add_bos_token |-> "True", add_eos_token |-> "True"]

====
